---- MODULE Spec2Model ----
(***************************************************************************)
(* ThreadPipe (src/pipe.h): a fixed-capacity single-writer / multi-reader  *)
(* pipe.  Every atomic access of the three operations is one step of the   *)
(* calling thread; steps of different threads interleave (sequentially     *)
(* consistent interleaving of the __atomic_* accesses).                    *)
(***************************************************************************)
EXTENDS Integers, Sequences, FiniteSets, TLC

(***************************************************************************)
(* Sizes.  The source uses TS_PIPE_SIZE_LOG2 = 8, 32-bit counters, four    *)
(* consumers and 65535 ids; the model keeps the formulas and scales the    *)
(* numbers down.                                                           *)
(***************************************************************************)
TS_PIPE_SIZE_LOG2 == 0

\* 2 << TS_PIPE_SIZE_LOG2
TS_PIPE_SIZE == 2 * (2 ^ TS_PIPE_SIZE_LOG2)

TS_PIPE_MASK == TS_PIPE_SIZE - 1

TS_PIPE_READABLE == 286331153

TS_PIPE_WRITABLE == 0

\* 0xFFFFFFFF, written as the 32-bit two's complement pattern
TS_PIPE_INVALID == -1

VARIABLES
    buffer, flags, writeIndex, readIndex, readCount,   \* struct TSpipe
    wpc, wloc,                                         \* the writer thread
    cpc, cloc,                                         \* the consumer threads
    currentId, allIds, frontIds,                       \* the driver's bookkeeping
    pre, prev, done, overlapped,                       \* observation of calls
    indexBits,       \* width of the counters in this build; never changes
    spuriousLeft,    \* spurious compare-exchange failures still allowed;
                     \* -1 is no limit
    stalled          \* the slots on which a write has returned 0 while the
                     \* consumer that still holds them held them

\* width of the uint32_t counters (reduced; no counter wraps below MAX_IDS)
INDEX_BITS == 16

UINT_MOD == 2 ^ indexBits

CONSUMER_COUNT == 2

MAX_IDS == 4

Slots == 0 .. TS_PIPE_MASK

Consumers == 1 .. CONSUMER_COUNT

\* thread id of the single writer
Writer == 0

FlagValues == {TS_PIPE_WRITABLE, TS_PIPE_READABLE, TS_PIPE_INVALID}

\* unsigned subtraction and addition of uint32_t values
USub(a, b) == (a - b) % UINT_MOD

UAdd(a, b) == (a + b) % UINT_MOD

\* index & TS_PIPE_MASK; the mask is 2^k - 1, so this is index mod 2^k
Masked(index) == index % (TS_PIPE_MASK + 1)

pipeVars == <<buffer, flags, writeIndex, readIndex, readCount>>

vars == <<buffer, flags, writeIndex, readIndex, readCount, wpc, wloc, cpc, cloc,
          currentId, allIds, frontIds, pre, prev, done, overlapped,
          indexBits, spuriousLeft, stalled>>

NoSnap == [none |-> TRUE]

NoDone == [who |-> -1]

\* headFlag: what the first compare-exchange of a front-read left in
\* "expected", that is the flag it found on the head slot
WLocInit == [writeIndex |-> 0, frontReadIndex |-> 0, actualIndex |-> 0,
             readCount |-> 0, data |-> 0, headFlag |-> TS_PIPE_READABLE]

CLocInit == [readCount |-> 0, readIndexToUse |-> 0, actualReadIndex |-> 0, out |-> 0]

\* the pipe as a value
Snapshot == [buffer |-> buffer, flags |-> flags, writeIndex |-> writeIndex,
             readIndex |-> readIndex, readCount |-> readCount]

\* no call is in progress on any thread
Quiescent == wpc = "idle" /\ \A c \in Consumers : cpc[c] = "idle"

(***************************************************************************)
(* tsPipeInit clears the buffer and the three counters; it does not touch  *)
(* the flags.                                                              *)
(***************************************************************************)
tsPipeInit ==
    /\ buffer = [s \in Slots |-> 0]
    /\ readIndex = 0
    /\ writeIndex = 0
    /\ readCount = 0

\* main (lines 294-313) on the static pipe of line 234: TSpipe pipe = {0}
\* leaves every flag 0, which is TS_PIPE_WRITABLE; then tsPipeInit; no
\* thread has called anything yet.  The counters are bits wide and the
\* compare-exchange may fail spuriously at most spurious times (-1: no limit).
Start(bits, spurious) ==
    /\ flags = [s \in Slots |-> 0]
    /\ tsPipeInit
    /\ wpc = "idle"
    /\ wloc = WLocInit
    /\ cpc = [c \in Consumers |-> "idle"]
    /\ cloc = [c \in Consumers |-> CLocInit]
    /\ currentId = 0
    /\ allIds = [v \in 0 .. MAX_IDS - 1 |-> 0]
    /\ frontIds = [v \in 0 .. MAX_IDS - 1 |-> 0]
    /\ pre = NoSnap
    /\ prev = NoDone
    /\ done = NoDone
    /\ overlapped = FALSE
    /\ indexBits = bits
    /\ spuriousLeft = spurious
    /\ stalled = {}

Init == Start(INDEX_BITS, -1)

\* tsPipeIsEmpty evaluated on a pipe value
IsEmptyOf(p) == USub(p.writeIndex, p.readCount) = 0

tsPipeIsEmpty == IsEmptyOf(Snapshot)

\* the agents between their successful compare-exchange on slot s and their
\* store of WRITABLE to it
Holders(s) ==
    {c \in Consumers : cpc[c] \in {"rb_inc", "rb_copy", "rb_free"}
                         /\ cloc[c].actualReadIndex = s}
    \cup (IF wpc \in {"rf_copy", "rf_free"} /\ wloc.actualIndex = s
            THEN {Writer} ELSE {})

(***************************************************************************)
(* Observation of calls.  Begin: a call starts; the pipe is recorded when  *)
(* the call starts with no other call in progress.  Mid: a later step of a *)
(* call.  End: the call returns.                                           *)
(***************************************************************************)
Begin ==
    /\ pre' = IF Quiescent THEN Snapshot ELSE NoSnap
    /\ prev' = IF Quiescent /\ done # NoDone
                 THEN [who |-> done.who, op |-> done.op, ret |-> done.ret,
                       out |-> done.out, pre |-> done.pre]
                 ELSE NoDone
    /\ done' = NoDone
    /\ overlapped' = (overlapped \/ ~Quiescent)
    /\ UNCHANGED <<indexBits, spuriousLeft, stalled>>

Mid ==
    /\ done' = NoDone
    /\ UNCHANGED <<pre, prev, overlapped, indexBits, spuriousLeft, stalled>>

End(t, op, ret, out) ==
    /\ done' = [who |-> t, op |-> op, ret |-> ret, out |-> out,
                pre |-> pre, prev |-> prev,
                head |-> IF t = Writer THEN wloc.headFlag ELSE TS_PIPE_READABLE]
    /\ pre' = NoSnap
    /\ prev' = NoDone
    /\ stalled' =
          IF op = "WriteFront" /\ ret = 0
               /\ Holders(wloc.actualIndex) \cap Consumers # {}
            THEN stalled \cup {wloc.actualIndex}
            ELSE IF op = "ReadBack" /\ ret = 1
                   THEN stalled \ {cloc[t].actualReadIndex}
                   ELSE stalled
    /\ UNCHANGED <<overlapped, indexBits, spuriousLeft>>

\* Mutant of CmpXchgResults: an exchange that does not compare.
CmpXchgAnyFlag(flag) == {TRUE}

(***************************************************************************)
(* tsAtomicCmpXchg_u32(&flags[i], READABLE -> INVALID, weak = 1): the set  *)
(* of results the call can give on a flag value.  A weak compare-exchange  *)
(* succeeds only on the expected value and may fail on it spuriously,      *)
(* while spurious failures are left.                                       *)
(***************************************************************************)
CmpXchgResults(flag) ==
    IF flag = TS_PIPE_READABLE
      THEN IF spuriousLeft = 0 THEN {TRUE} ELSE {TRUE, FALSE}
      ELSE {FALSE}

\* Mid for the step of a compare-exchange: a spurious failure is counted
MidCmpXchg(flag, success) ==
    /\ done' = NoDone
    /\ spuriousLeft' = IF flag = TS_PIPE_READABLE /\ ~success /\ spuriousLeft > 0
                         THEN spuriousLeft - 1
                         ELSE spuriousLeft
    /\ UNCHANGED <<pre, prev, overlapped, indexBits, stalled>>

(***************************************************************************)
(* tsPipeReaderTryReadBack, consumer c.                                    *)
(***************************************************************************)
\* lines 107-110: readCount = load(readCount); readIndexToUse = readCount
ReadBack_LoadReadCount(c) ==
    /\ cpc[c] = "idle"
    /\ cloc' = [cloc EXCEPT ![c].readCount = readCount,
                            ![c].readIndexToUse = readCount]
    /\ cpc' = [cpc EXCEPT ![c] = "rb_wi"]
    /\ Begin
    /\ UNCHANGED <<pipeVars, wpc, wloc, currentId, allIds, frontIds>>

\* Mutant of ReadBack_LoadWriteIndex: gives up (returns 0) when the scan has
\* reached writeIndex instead of restarting it at readIndex.
ReadBack_LoadWriteIndexNoRefresh(c) ==
    /\ cpc[c] = "rb_wi"
    /\ IF USub(writeIndex, cloc[c].readCount) = 0
          \/ cloc[c].readIndexToUse >= writeIndex
         THEN /\ cpc' = [cpc EXCEPT ![c] = "idle"]
              /\ cloc' = [cloc EXCEPT ![c] = CLocInit]
              /\ End(c, "ReadBack", 0, 0)
         ELSE /\ cpc' = [cpc EXCEPT ![c] = "rb_cas"]
              /\ UNCHANGED cloc
              /\ Mid
    /\ UNCHANGED <<pipeVars, wpc, wloc, currentId, allIds, frontIds>>

\* lines 113-117: load writeIndex; return 0 when writeIndex - readCount == 0
ReadBack_LoadWriteIndex(c) ==
    /\ cpc[c] = "rb_wi"
    /\ IF USub(writeIndex, cloc[c].readCount) = 0
         THEN /\ cpc' = [cpc EXCEPT ![c] = "idle"]
              /\ cloc' = [cloc EXCEPT ![c] = CLocInit]
              /\ End(c, "ReadBack", 0, 0)
         ELSE /\ cpc' = [cpc EXCEPT ![c] =
                            IF cloc[c].readIndexToUse >= writeIndex
                              THEN "rb_ri" ELSE "rb_cas"]
              /\ UNCHANGED cloc
              /\ Mid
    /\ UNCHANGED <<pipeVars, wpc, wloc, currentId, allIds, frontIds>>

\* line 119: readIndexToUse = load(readIndex)
ReadBack_LoadReadIndex(c) ==
    /\ cpc[c] = "rb_ri"
    /\ cloc' = [cloc EXCEPT ![c].readIndexToUse = readIndex]
    /\ cpc' = [cpc EXCEPT ![c] = "rb_cas"]
    /\ Mid
    /\ UNCHANGED <<pipeVars, wpc, wloc, currentId, allIds, frontIds>>

\* lines 122-133: the compare-exchange on flags[readIndexToUse & MASK];
\* on failure ++readIndexToUse
ReadBack_CmpXchg(c) ==
    /\ cpc[c] = "rb_cas"
    /\ LET a == Masked(cloc[c].readIndexToUse) IN
       \E success \in CmpXchgResults(flags[a]) :
          /\ MidCmpXchg(flags[a], success)
          /\ IF success
               THEN /\ flags' = [flags EXCEPT ![a] = TS_PIPE_INVALID]
                    /\ cloc' = [cloc EXCEPT ![c].actualReadIndex = a]
                    /\ cpc' = [cpc EXCEPT ![c] = "rb_inc"]
               ELSE /\ flags' = flags
                    /\ cloc' = [cloc EXCEPT ![c].actualReadIndex = a,
                                  ![c].readIndexToUse = UAdd(cloc[c].readIndexToUse, 1)]
                    /\ cpc' = [cpc EXCEPT ![c] = "rb_rc"]
    /\ UNCHANGED <<buffer, writeIndex, readIndex, readCount, wpc, wloc,
                   currentId, allIds, frontIds>>

\* line 136: readCount = load(readCount)
ReadBack_ReloadReadCount(c) ==
    /\ cpc[c] = "rb_rc"
    /\ cloc' = [cloc EXCEPT ![c].readCount = readCount]
    /\ cpc' = [cpc EXCEPT ![c] = "rb_wi"]
    /\ Mid
    /\ UNCHANGED <<pipeVars, wpc, wloc, currentId, allIds, frontIds>>

\* line 142: fetch_add(readCount, 1)
ReadBack_FetchAdd(c) ==
    /\ cpc[c] = "rb_inc"
    /\ readCount' = UAdd(readCount, 1)
    /\ cpc' = [cpc EXCEPT ![c] = "rb_copy"]
    /\ Mid
    /\ UNCHANGED <<buffer, flags, writeIndex, readIndex, wpc, wloc, cloc,
                   currentId, allIds, frontIds>>

\* line 145: *out = buffer[actualReadIndex]
ReadBack_Copy(c) ==
    /\ cpc[c] = "rb_copy"
    /\ cloc' = [cloc EXCEPT ![c].out = buffer[cloc[c].actualReadIndex]]
    /\ cpc' = [cpc EXCEPT ![c] = "rb_free"]
    /\ Mid
    /\ UNCHANGED <<pipeVars, wpc, wloc, currentId, allIds, frontIds>>

\* Mutant of ReadBack_StoreFlag: stores READABLE instead of WRITABLE.
ReadBack_StoreFlagReadable(c) ==
    /\ cpc[c] = "rb_free"
    /\ flags' = [flags EXCEPT ![cloc[c].actualReadIndex] = TS_PIPE_READABLE]
    /\ allIds' = [allIds EXCEPT ![cloc[c].out] = @ + 1]
    /\ cpc' = [cpc EXCEPT ![c] = "idle"]
    /\ cloc' = [cloc EXCEPT ![c] = CLocInit]
    /\ End(c, "ReadBack", 1, cloc[c].out)
    /\ UNCHANGED <<buffer, writeIndex, readIndex, readCount, wpc, wloc,
                   currentId, frontIds>>

\* lines 147-149: store(flags[actualReadIndex], WRITABLE); return 1.
\* The caller counts the value (consumer, line 286).
ReadBack_StoreFlag(c) ==
    /\ cpc[c] = "rb_free"
    /\ flags' = [flags EXCEPT ![cloc[c].actualReadIndex] = TS_PIPE_WRITABLE]
    /\ allIds' = [allIds EXCEPT ![cloc[c].out] = @ + 1]
    /\ cpc' = [cpc EXCEPT ![c] = "idle"]
    /\ cloc' = [cloc EXCEPT ![c] = CLocInit]
    /\ End(c, "ReadBack", 1, cloc[c].out)
    /\ UNCHANGED <<buffer, writeIndex, readIndex, readCount, wpc, wloc,
                   currentId, frontIds>>

tsPipeReaderTryReadBack(c) ==
    \/ ReadBack_LoadReadCount(c)
    \/ ReadBack_LoadWriteIndex(c)
    \/ ReadBack_LoadReadIndex(c)
    \/ ReadBack_CmpXchg(c)
    \/ ReadBack_ReloadReadCount(c)
    \/ ReadBack_FetchAdd(c)
    \/ ReadBack_Copy(c)
    \/ ReadBack_StoreFlag(c)

(***************************************************************************)
(* tsPipeWriterTryWriteFront, called as the producer does (lines 264-268): *)
(* the payload is currentId, which advances after a successful write.      *)
(***************************************************************************)
\* lines 264-265, 204: toWrite = currentId; writeIndex = pipe->writeIndex
WriteFront_LoadWriteIndex ==
    /\ wpc = "idle"
    /\ currentId < MAX_IDS
    /\ wloc' = [wloc EXCEPT !.writeIndex = writeIndex,
                            !.actualIndex = Masked(writeIndex),
                            !.data = currentId]
    /\ wpc' = "wf_flag"
    /\ Begin
    /\ UNCHANGED <<pipeVars, cpc, cloc, currentId, allIds, frontIds>>

\* Mutant of WriteFront_LoadFlag: the flag is not checked.
WriteFront_LoadFlagUnchecked ==
    /\ wpc = "wf_flag"
    /\ wpc' = "wf_buf"
    /\ UNCHANGED wloc
    /\ Mid
    /\ UNCHANGED <<pipeVars, cpc, cloc, currentId, allIds, frontIds>>

\* Mutant of WriteFront_LoadFlag: only a READABLE slot is refused, so the
\* writer goes on into a slot a reader still holds.
WriteFront_LoadFlagReadableOnly ==
    /\ wpc = "wf_flag"
    /\ IF flags[wloc.actualIndex] = TS_PIPE_READABLE
         THEN /\ wpc' = "idle"
              /\ wloc' = WLocInit
              /\ End(Writer, "WriteFront", 0, wloc.data)
         ELSE /\ wpc' = "wf_buf"
              /\ UNCHANGED wloc
              /\ Mid
    /\ UNCHANGED <<pipeVars, cpc, cloc, currentId, allIds, frontIds>>

\* lines 210-213: return 0 unless flags[actualWriteIndex] is WRITABLE
WriteFront_LoadFlag ==
    /\ wpc = "wf_flag"
    /\ IF flags[wloc.actualIndex] # TS_PIPE_WRITABLE
         THEN /\ wpc' = "idle"
              /\ wloc' = WLocInit
              /\ End(Writer, "WriteFront", 0, wloc.data)
         ELSE /\ wpc' = "wf_buf"
              /\ UNCHANGED wloc
              /\ Mid
    /\ UNCHANGED <<pipeVars, cpc, cloc, currentId, allIds, frontIds>>

\* line 217: buffer[actualWriteIndex] = *in
WriteFront_StoreBuffer ==
    /\ wpc = "wf_buf"
    /\ buffer' = [buffer EXCEPT ![wloc.actualIndex] = wloc.data]
    /\ wpc' = "wf_pub"
    /\ Mid
    /\ UNCHANGED <<flags, writeIndex, readIndex, readCount, wloc, cpc, cloc,
                   currentId, allIds, frontIds>>

\* line 218: store(flags[actualWriteIndex], READABLE)
WriteFront_StoreFlag ==
    /\ wpc = "wf_pub"
    /\ flags' = [flags EXCEPT ![wloc.actualIndex] = TS_PIPE_READABLE]
    /\ wpc' = "wf_inc"
    /\ Mid
    /\ UNCHANGED <<buffer, writeIndex, readIndex, readCount, wloc, cpc, cloc,
                   currentId, allIds, frontIds>>

\* lines 220-221, 268: fetch_add(writeIndex, 1); return 1; currentId++
WriteFront_FetchAdd ==
    /\ wpc = "wf_inc"
    /\ writeIndex' = UAdd(writeIndex, 1)
    /\ currentId' = currentId + 1
    /\ wpc' = "idle"
    /\ wloc' = WLocInit
    /\ End(Writer, "WriteFront", 1, wloc.data)
    /\ UNCHANGED <<buffer, flags, readIndex, readCount, cpc, cloc, allIds, frontIds>>

tsPipeWriterTryWriteFront ==
    \/ WriteFront_LoadWriteIndex
    \/ WriteFront_LoadFlag
    \/ WriteFront_StoreBuffer
    \/ WriteFront_StoreFlag
    \/ WriteFront_FetchAdd

(***************************************************************************)
(* tsPipeWriterTryReadFront, called by the writer thread.                  *)
(***************************************************************************)
\* lines 157-158: writeIndex = load(writeIndex); frontReadIndex = writeIndex
ReadFront_LoadWriteIndex ==
    /\ wpc = "idle"
    /\ wloc' = [wloc EXCEPT !.writeIndex = writeIndex,
                            !.frontReadIndex = writeIndex]
    /\ wpc' = "rf_rc"
    /\ Begin
    /\ UNCHANGED <<pipeVars, cpc, cloc, currentId, allIds, frontIds>>

\* lines 166-168: readCount = load(readCount); numInPipe = writeIndex - readCount
ReadFront_LoadReadCount ==
    /\ wpc = "rf_rc"
    /\ wloc' = [wloc EXCEPT !.readCount = readCount]
    /\ wpc' = IF USub(wloc.writeIndex, readCount) = 0 THEN "rf_hint" ELSE "rf_cas"
    /\ Mid
    /\ UNCHANGED <<pipeVars, cpc, cloc, currentId, allIds, frontIds>>

\* lines 170-171: store(readIndex, readCount); return 0
ReadFront_StoreReadIndex ==
    /\ wpc = "rf_hint"
    /\ readIndex' = wloc.readCount
    /\ wpc' = "idle"
    /\ wloc' = WLocInit
    /\ End(Writer, "ReadFront", 0, 0)
    /\ UNCHANGED <<buffer, flags, writeIndex, readCount, cpc, cloc,
                   currentId, allIds, frontIds>>

\* Mutant of ReadFront_CmpXchg: a plain store of INVALID, nothing compared.
ReadFront_CmpXchgBlind ==
    /\ wpc = "rf_cas"
    /\ LET f == USub(wloc.frontReadIndex, 1)
           a == Masked(f)
       IN  /\ flags' = [flags EXCEPT ![a] = TS_PIPE_INVALID]
           /\ wloc' = [wloc EXCEPT !.frontReadIndex = f, !.actualIndex = a]
           /\ wpc' = "rf_copy"
    /\ Mid
    /\ UNCHANGED <<buffer, writeIndex, readIndex, readCount, cpc, cloc,
                   currentId, allIds, frontIds>>

\* lines 173-179: --frontReadIndex; the compare-exchange on
\* flags[frontReadIndex & MASK]
ReadFront_CmpXchg ==
    /\ wpc = "rf_cas"
    /\ LET f == USub(wloc.frontReadIndex, 1)
           a == Masked(f)
       IN  \E success \in CmpXchgResults(flags[a]) :
              /\ MidCmpXchg(flags[a], success)
              /\ flags' = IF success THEN [flags EXCEPT ![a] = TS_PIPE_INVALID]
                                     ELSE flags
              /\ wloc' = [wloc EXCEPT !.frontReadIndex = f, !.actualIndex = a,
                                      !.headFlag =
                                         IF wloc.frontReadIndex = wloc.writeIndex
                                           THEN flags[a] ELSE @]
              /\ wpc' = IF success THEN "rf_copy" ELSE "rf_ri"
    /\ UNCHANGED <<buffer, writeIndex, readIndex, readCount, cpc, cloc,
                   currentId, allIds, frontIds>>

\* Mutant of ReadFront_LoadReadIndex: writeIndex is lowered although the
\* call gives up.
ReadFront_LoadReadIndexRetract ==
    /\ wpc = "rf_ri"
    /\ IF readIndex >= wloc.frontReadIndex
         THEN /\ wpc' = "idle"
              /\ wloc' = WLocInit
              /\ writeIndex' = USub(wloc.writeIndex, 1)
              /\ End(Writer, "ReadFront", 0, 0)
         ELSE /\ wpc' = "rf_rc"
              /\ UNCHANGED <<wloc, writeIndex>>
              /\ Mid
    /\ UNCHANGED <<buffer, flags, readIndex, readCount, cpc, cloc, currentId,
                   allIds, frontIds>>

\* Mutant of ReadFront_LoadReadIndex: > in place of >=.
ReadFront_LoadReadIndexStrict ==
    /\ wpc = "rf_ri"
    /\ IF readIndex > wloc.frontReadIndex
         THEN /\ wpc' = "idle"
              /\ wloc' = WLocInit
              /\ End(Writer, "ReadFront", 0, 0)
         ELSE /\ wpc' = "rf_rc"
              /\ UNCHANGED wloc
              /\ Mid
    /\ UNCHANGED <<pipeVars, cpc, cloc, currentId, allIds, frontIds>>

\* lines 180-183: return 0 when load(readIndex) >= frontReadIndex
ReadFront_LoadReadIndex ==
    /\ wpc = "rf_ri"
    /\ IF readIndex >= wloc.frontReadIndex
         THEN /\ wpc' = "idle"
              /\ wloc' = WLocInit
              /\ End(Writer, "ReadFront", 0, 0)
         ELSE /\ wpc' = "rf_rc"
              /\ UNCHANGED wloc
              /\ Mid
    /\ UNCHANGED <<pipeVars, cpc, cloc, currentId, allIds, frontIds>>

\* line 187: *out = buffer[actualReadIndex]
ReadFront_Copy ==
    /\ wpc = "rf_copy"
    /\ wloc' = [wloc EXCEPT !.data = buffer[wloc.actualIndex]]
    /\ wpc' = "rf_free"
    /\ Mid
    /\ UNCHANGED <<pipeVars, cpc, cloc, currentId, allIds, frontIds>>

\* line 189: store(flags[actualReadIndex], WRITABLE)
ReadFront_StoreFlag ==
    /\ wpc = "rf_free"
    /\ flags' = [flags EXCEPT ![wloc.actualIndex] = TS_PIPE_WRITABLE]
    /\ wpc' = "rf_retract"
    /\ Mid
    /\ UNCHANGED <<buffer, writeIndex, readIndex, readCount, wloc, cpc, cloc,
                   currentId, allIds, frontIds>>

\* lines 190-192: store(writeIndex, writeIndex - 1); return 1.
\* The value handed back to the writer is counted in frontIds.
ReadFront_StoreWriteIndex ==
    /\ wpc = "rf_retract"
    /\ writeIndex' = USub(wloc.writeIndex, 1)
    /\ frontIds' = [frontIds EXCEPT ![wloc.data] = @ + 1]
    /\ wpc' = "idle"
    /\ wloc' = WLocInit
    /\ End(Writer, "ReadFront", 1, wloc.data)
    /\ UNCHANGED <<buffer, flags, readIndex, readCount, cpc, cloc,
                   currentId, allIds>>

tsPipeWriterTryReadFront ==
    \/ ReadFront_LoadWriteIndex
    \/ ReadFront_LoadReadCount
    \/ ReadFront_StoreReadIndex
    \/ ReadFront_CmpXchg
    \/ ReadFront_LoadReadIndex
    \/ ReadFront_Copy
    \/ ReadFront_StoreFlag
    \/ ReadFront_StoreWriteIndex

Next ==
    \/ tsPipeWriterTryWriteFront
    \/ tsPipeWriterTryReadFront
    \/ \E c \in Consumers : tsPipeReaderTryReadBack(c)

Spec == Init /\ [][Next]_vars

TypeOK ==
    /\ flags \in [Slots -> FlagValues]
    /\ buffer \in [Slots -> 0 .. MAX_IDS - 1]
    /\ writeIndex \in 0 .. UINT_MOD - 1
    /\ readIndex \in 0 .. UINT_MOD - 1
    /\ readCount \in 0 .. UINT_MOD - 1

(***************************************************************************)
(* Derived notions used by the properties.                                 *)
(***************************************************************************)
Ids == 0 .. MAX_IDS - 1

\* ids whose write has published its slot (flag stored READABLE)
Published == {v \in Ids : v < currentId \/ (v = currentId /\ wpc = "wf_inc")}

\* times value v has been handed out, by read-backs and front-reads together
Delivered(v) == allIds[v] + frontIds[v]

ReadableSlots == {s \in Slots : flags[s] = TS_PIPE_READABLE}

\* the slots of the logical indices lo, lo+1, ..., hi-1 (empty when hi <= lo)
WindowSlots(lo, hi) == {Masked(k) : k \in lo .. hi - 1}

(***************************************************************************)
(* C1 -- exactly-once delivery: every value handed out by a successful     *)
(* read-back or front-read is the payload of a write that had published    *)
(* it, and no payload is handed out more than once over read-backs and     *)
(* front-reads together.                                                   *)
(***************************************************************************)
C1_ExactlyOnce ==
    \A v \in Ids : /\ Delivered(v) <= 1
                   /\ Delivered(v) = 1 => v \in Published

\* all ids written and handed out, under overlapping calls, some by
\* read-back and some by front-read
C1_Witness ==
    /\ overlapped
    /\ currentId = MAX_IDS
    /\ \A v \in Ids : Delivered(v) = 1
    /\ \E v \in Ids : allIds[v] = 1
    /\ \E v \in Ids : frontIds[v] = 1

(***************************************************************************)
(* C2 -- conservation: in a state with no call in progress and             *)
(* writeIndex = readCount no slot is READABLE and every id written so far  *)
(* has been handed out exactly once (by a read-back or by a front-read).   *)
(***************************************************************************)
C2_Conservation ==
    (Quiescent /\ writeIndex = readCount) =>
        /\ ReadableSlots = {}
        /\ \A v \in Ids : Delivered(v) = (IF v < currentId THEN 1 ELSE 0)

C2_Witness ==
    /\ Quiescent /\ writeIndex = readCount /\ overlapped
    /\ currentId = MAX_IDS
    /\ \E v \in Ids : frontIds[v] = 1
    /\ \E v \in Ids : allIds[v] = 1

(***************************************************************************)
(* C3 -- counter bound.  As claimed: in every reachable state, also        *)
(* part-way through calls, (writeIndex - readCount) mod 2^w is in [0, N].  *)
(***************************************************************************)
C3_Original == USub(writeIndex, readCount) \in 0 .. TS_PIPE_SIZE

\* C3 as amended: the bound holds in every state in which the writer is not
\* between publishing a slot (line 218) and adding 1 to writeIndex (line
\* 220); in particular at every quiescent point.
C3_CounterBound ==
    wpc # "wf_inc" => USub(writeIndex, readCount) \in 0 .. TS_PIPE_SIZE

\* the pipe is full while consumers are part-way through read-backs
C3_Witness ==
    /\ USub(writeIndex, readCount) = TS_PIPE_SIZE
    /\ wpc # "wf_inc"
    /\ \E c \in Consumers : cpc[c] = "rb_inc"

(***************************************************************************)
(* C4 -- window invariant: at every quiescent point every READABLE slot is *)
(* slot (k & MASK) of some index k in [readCount, writeIndex).             *)
(***************************************************************************)
C4_Window ==
    Quiescent => ReadableSlots \subseteq WindowSlots(readCount, writeIndex)

(***************************************************************************)
(* C5 -- flag protocol: every flag always holds one of the three values,   *)
(* and a flag changes only WRITABLE -> READABLE (the writer's publish),    *)
(* READABLE -> INVALID (a compare-exchange of a reader or of the writer's  *)
(* front-read, which becomes the slot's holder) or INVALID -> WRITABLE     *)
(* (the store of the slot's holder).                                       *)
(***************************************************************************)
FlagStep(s) ==
    \/ /\ flags[s] = TS_PIPE_WRITABLE /\ flags'[s] = TS_PIPE_READABLE
       /\ wpc = "wf_pub" /\ wpc' = "wf_inc" /\ wloc.actualIndex = s
    \/ /\ flags[s] = TS_PIPE_READABLE /\ flags'[s] = TS_PIPE_INVALID
       /\ Holders(s) = {}
       /\ \/ \E c \in Consumers : cpc[c] = "rb_cas" /\ Holders(s)' = {c}
          \/ wpc = "rf_cas" /\ Holders(s)' = {Writer}
    \/ /\ flags[s] = TS_PIPE_INVALID /\ flags'[s] = TS_PIPE_WRITABLE
       /\ \/ \E c \in Consumers : Holders(s) = {c} /\ cpc[c] = "rb_free"
                                                   /\ cpc'[c] = "idle"
          \/ Holders(s) = {Writer} /\ wpc = "rf_free" /\ wpc' = "rf_retract"

C5_FlagProtocol ==
    /\ [](flags \in [Slots -> FlagValues])
    /\ [][\A s \in Slots : flags'[s] # flags[s] => FlagStep(s)]_vars

\* slot 0 has gone round the cycle and is READABLE for a later id, while
\* the writer's front-read and a consumer have both claimed slots
C5_Witness ==
    /\ flags[0] = TS_PIPE_READABLE /\ buffer[0] >= TS_PIPE_SIZE
    /\ \E c \in Consumers : Holders(1) = {c}
    /\ frontIds # [v \in Ids |-> 0]

(***************************************************************************)
(* C6 -- slot exclusivity: a slot has at most one holder (an agent between *)
(* its successful compare-exchange and its store of WRITABLE), and is      *)
(* INVALID while held; the writer stores a payload and publishes only into *)
(* a slot whose flag is WRITABLE; and the payload of a slot does not       *)
(* change from its publication until its holder has copied it out.         *)
(***************************************************************************)
\* the holders of s that have not yet copied the payload out
CopyPending(s) ==
    {c \in Consumers : cpc[c] \in {"rb_inc", "rb_copy"}
                         /\ cloc[c].actualReadIndex = s}
    \cup (IF wpc = "rf_copy" /\ wloc.actualIndex = s THEN {Writer} ELSE {})

SlotExclusive ==
    /\ \A s \in Slots : /\ Cardinality(Holders(s)) <= 1
                        /\ Holders(s) # {} => flags[s] = TS_PIPE_INVALID
    /\ wpc \in {"wf_buf", "wf_pub"} => flags[wloc.actualIndex] = TS_PIPE_WRITABLE

C6_SlotExclusivity ==
    /\ []SlotExclusive
    /\ [][\A s \in Slots :
            (flags[s] = TS_PIPE_READABLE \/ CopyPending(s) # {})
                => buffer'[s] = buffer[s]]_vars

\* the writer is storing a payload into one slot while both consumers hold
\* or contend for the other
C6_Witness ==
    /\ wpc = "wf_buf"
    /\ \E c \in Consumers, s \in Slots \ {wloc.actualIndex} :
          Holders(s) = {c} /\ cpc[c] = "rb_copy"
    /\ \E c \in Consumers : cpc[c] = "rb_cas"

(***************************************************************************)
(* C7 -- sequential deque behaviour: as long as no two calls have          *)
(* overlapped, the pipe is a bounded deque of capacity N.  Its contents    *)
(* are buffer[k & MASK] for k = readCount .. writeIndex-1 (tail first),    *)
(* exactly these slots are READABLE and the others WRITABLE; write-front   *)
(* appends at the head and returns 0 iff N items are held; read-front      *)
(* removes the head and read-back the tail, each returning 0 iff the deque *)
(* is empty; is-empty is true iff the deque is empty.                      *)
(***************************************************************************)
DequeOf(p) ==
    [j \in 1 .. USub(p.writeIndex, p.readCount) |->
        p.buffer[Masked(p.readCount + j - 1)]]

WellFormed(p) ==
    /\ USub(p.writeIndex, p.readCount) <= TS_PIPE_SIZE
    /\ \A s \in Slots :
          p.flags[s] = (IF s \in WindowSlots(p.readCount, p.writeIndex)
                          THEN TS_PIPE_READABLE ELSE TS_PIPE_WRITABLE)

DequeStep(op, ret, out, d, e) ==
    CASE op = "WriteFront" ->
           IF Len(d) = TS_PIPE_SIZE THEN ret = 0 /\ e = d
                                    ELSE ret = 1 /\ e = Append(d, out)
      [] op = "ReadFront" ->
           IF Len(d) = 0 THEN ret = 0 /\ e = d
                         ELSE ret = 1 /\ out = d[Len(d)]
                                      /\ e = SubSeq(d, 1, Len(d) - 1)
      [] op = "ReadBack" ->
           IF Len(d) = 0 THEN ret = 0 /\ e = d
                         ELSE ret = 1 /\ out = d[1] /\ e = Tail(d)

C7_SequentialDeque ==
    (~overlapped /\ done # NoDone) =>
        /\ done.pre # NoSnap
        /\ WellFormed(Snapshot)
        /\ tsPipeIsEmpty <=> (ReadableSlots = {})
        /\ DequeStep(done.op, done.ret, done.out, DequeOf(done.pre), DequeOf(Snapshot))

(***************************************************************************)
(* C8 -- write / front-read round trip: a successful write-front of v that *)
(* starts with no call in progress, followed at once by a read-front with  *)
(* no consumer step in between, returns 1 with v and puts writeIndex,      *)
(* readCount and every flag back to their values before the write; if the  *)
(* pipe was empty before, it is empty afterwards.                          *)
(***************************************************************************)
C8_RoundTrip ==
    (/\ done # NoDone /\ done.op = "ReadFront" /\ done.pre # NoSnap
     /\ done.prev # NoDone /\ done.prev.op = "WriteFront" /\ done.prev.ret = 1
     /\ done.prev.pre # NoSnap)
    => /\ done.ret = 1
       /\ done.out = done.prev.out
       /\ writeIndex = done.prev.pre.writeIndex
       /\ readCount = done.prev.pre.readCount
       /\ flags = done.prev.pre.flags
       /\ IsEmptyOf(done.prev.pre) => tsPipeIsEmpty

(***************************************************************************)
(* C9 -- write fails only when full: a write-front that starts with no     *)
(* call in progress and runs alone returns 0 only if the pipe holds N      *)
(* unread items (writeIndex - readCount = N and all N slots READABLE), and *)
(* returns 1 otherwise.                                                    *)
(***************************************************************************)
FullOf(p) ==
    /\ USub(p.writeIndex, p.readCount) = TS_PIPE_SIZE
    /\ \A s \in Slots : p.flags[s] = TS_PIPE_READABLE

C9_WriteFailsOnlyWhenFull ==
    (done # NoDone /\ done.op = "WriteFront" /\ done.pre # NoSnap)
        => (done.ret = 0 <=> FullOf(done.pre))

(***************************************************************************)
(* C10 -- read-back fails only when empty: a read-back that starts with no *)
(* call in progress and returns with no step of another thread in between  *)
(* returns 1 if some slot was READABLE and 0 only if none was.             *)
(***************************************************************************)
C10_ReadBackFailsOnlyWhenEmpty ==
    (done # NoDone /\ done.op = "ReadBack" /\ done.pre # NoSnap)
        => (done.ret = 1 <=> \E s \in Slots : done.pre.flags[s] = TS_PIPE_READABLE)

\* a lone read-back has returned 1 from a state whose only READABLE slot lay
\* outside the slots of [readCount, writeIndex): it was found by the scan
\* restarted at readIndex
C10_Witness ==
    /\ done # NoDone /\ done.op = "ReadBack" /\ done.pre # NoSnap
    /\ done.ret = 1
    /\ \A s \in Slots : done.pre.flags[s] = TS_PIPE_READABLE
          => s \notin WindowSlots(done.pre.readCount, done.pre.writeIndex)

(***************************************************************************)
(* Fair scheduling.  A thread that is inside a call keeps taking steps;    *)
(* no thread is obliged to start a call.  The writes are finitely many     *)
(* (MAX_IDS), and the compare-exchange fails spuriously at most            *)
(* MAX_SPURIOUS times, so that no behaviour of SpecFair owes its shape to  *)
(* a compare-exchange that fails spuriously for ever.                      *)
(***************************************************************************)
MAX_SPURIOUS == 1

InitFair == Start(INDEX_BITS, MAX_SPURIOUS)

\* the steps of consumer c after the first step of a call
ReadBack_Continue(c) == cpc[c] # "idle" /\ tsPipeReaderTryReadBack(c)

\* the steps of the writer after the first step of a call
Writer_Continue ==
    wpc # "idle" /\ (tsPipeWriterTryWriteFront \/ tsPipeWriterTryReadFront)

Fairness ==
    /\ WF_vars(Writer_Continue)
    /\ \A c \in Consumers : WF_vars(ReadBack_Continue(c))

SpecFair == InitFair /\ [][Next]_vars /\ Fairness

\* C11: with finitely many writes and every thread inside a call taking
\* steps, every call of tsPipeReaderTryReadBack returns.
C11_ReadBackReturns ==
    \A c \in Consumers : (cpc[c] # "idle") ~> (cpc[c] = "idle")

(***************************************************************************)
(* One consumer alone is scheduled: Runner keeps taking steps while it is  *)
(* inside a call; every other thread may stop anywhere, for ever.  No      *)
(* compare-exchange fails spuriously in SpecSolo.                          *)
(***************************************************************************)
Runner == CHOOSE c \in Consumers : TRUE

InitSolo == Start(INDEX_BITS, 0)

SpecSolo == InitSolo /\ [][Next]_vars /\ WF_vars(ReadBack_Continue(Runner))

WriterPcs == {"idle", "wf_flag", "wf_buf", "wf_pub", "wf_inc", "rf_rc", "rf_hint",
              "rf_cas", "rf_ri", "rf_copy", "rf_free", "rf_retract"}

ConsumerPcs == {"idle", "rb_wi", "rb_ri", "rb_cas", "rb_rc", "rb_inc", "rb_copy",
                "rb_free"}

\* where every thread but Runner stands; each step of a thread changes its
\* position, so the others take no step while this stays the same
OthersAt(w, x) ==
    wpc = w /\ \A d \in Consumers \ {Runner} : cpc[d] = x[d]

\* C12: a read-back returns by its own steps alone: wherever the other
\* threads are suspended, a call of Runner returns unless another thread
\* moves.
C12_NonBlocking ==
    \A w \in WriterPcs : \A x \in [Consumers \ {Runner} -> ConsumerPcs] :
        (cpc[Runner] # "idle" /\ OthersAt(w, x))
            ~> (cpc[Runner] = "idle" \/ ~OthersAt(w, x))

WRAP_BITS == 2

InitWrap == Start(WRAP_BITS, 0)

SpecWrap == InitWrap /\ [][Next]_vars /\ Fairness

FrontReadPcs == {"rf_rc", "rf_hint", "rf_cas", "rf_ri", "rf_copy", "rf_free",
                 "rf_retract"}

\* C14: with counters that wrap, every item is still handed out exactly
\* once, and every read-back and every front-read returns (an item that no
\* scan can reach keeps a read-back from returning).
C14_Wraparound ==
    /\ [](\A v \in Ids : /\ Delivered(v) <= 1
                          /\ Delivered(v) = 1 => v \in Published)
    /\ \A c \in Consumers : (cpc[c] # "idle") ~> (cpc[c] = "idle")
    /\ (wpc \in FrontReadPcs) ~> (wpc = "idle")

(***************************************************************************)
(* tsPipeInit on a pipe that has been used.  The threads are ended where   *)
(* they are (main kills the consumers, line 316) and tsPipeInit is called  *)
(* on the memory as it is; the pipe is followed up to the return of that   *)
(* call.                                                                   *)
(***************************************************************************)
Reinitialised == done # NoDone /\ done.op = "Init"

\* lines 85-89: memset(buffer), readIndex = 0, writeIndex = 0, readCount = 0;
\* no store to the flags
tsPipeInit_Again ==
    /\ ~Reinitialised
    /\ buffer' = [s \in Slots |-> 0]
    /\ readIndex' = 0
    /\ writeIndex' = 0
    /\ readCount' = 0
    /\ done' = [who |-> Writer, op |-> "Init", ret |-> 0, out |-> 0,
                pre |-> Snapshot, prev |-> NoDone, head |-> TS_PIPE_READABLE]
    /\ pre' = NoSnap
    /\ prev' = NoDone
    /\ wpc' = "idle"
    /\ wloc' = WLocInit
    /\ cpc' = [c \in Consumers |-> "idle"]
    /\ cloc' = [c \in Consumers |-> CLocInit]
    /\ stalled' = {}
    /\ UNCHANGED <<flags, currentId, allIds, frontIds, overlapped, indexBits,
                   spuriousLeft>>

NextReinit ==
    \/ ~Reinitialised /\ tsPipeWriterTryWriteFront
    \/ ~Reinitialised /\ tsPipeWriterTryReadFront
    \/ \E c \in Consumers : ~Reinitialised /\ tsPipeReaderTryReadBack(c)
    \/ tsPipeInit_Again

SpecReinit == Init /\ [][NextReinit]_vars

\* C15: when tsPipeInit has returned, whatever the pipe held before, the
\* three counters are 0, every flag is WRITABLE and tsPipeIsEmpty is true.
C15_InitResets ==
    Reinitialised =>
        /\ writeIndex = 0 /\ readIndex = 0 /\ readCount = 0
        /\ \A s \in Slots : flags[s] = TS_PIPE_WRITABLE
        /\ tsPipeIsEmpty

(***************************************************************************)
(* A consumer that halts between its compare-exchange and its store of     *)
(* WRITABLE is a consumer that takes no further step: Spec obliges no      *)
(* thread to step.                                                         *)
(***************************************************************************)
\* slot s is held by a consumer
Leaked(s) == Holders(s) \cap Consumers # {}

\* C16 as stated: a slot held by a consumer that does not move stays
\* IN_FLIGHT, and once a write has met that slot at writeIndex & MASK and
\* returned 0, every later write returns 0.
C16_Original ==
    /\ \A s \in Slots : Leaked(s) => flags[s] = TS_PIPE_INVALID
    /\ (done # NoDone /\ done.op = "WriteFront" /\ stalled # {}) => done.ret = 0

\* C16 amended: the slot stays IN_FLIGHT; every write that meets it at
\* writeIndex & MASK returns 0; and after such a write writeIndex moves off
\* that slot only by the store of a successful front-read (line 190).
C16_LeakedSlot ==
    /\ [](\A s \in Slots : Leaked(s) => flags[s] = TS_PIPE_INVALID)
    /\ [][\A s \in Slots : (Leaked(s) /\ Leaked(s)') =>
            /\ (wpc = "wf_flag" /\ wpc' # "wf_flag" /\ wloc.actualIndex = s)
                  => (wpc' = "idle" /\ done'.op = "WriteFront" /\ done'.ret = 0)
            /\ (s \in stalled /\ Masked(writeIndex) = s /\ writeIndex' # writeIndex)
                  => (wpc = "rf_retract" /\ done'.ret = 1)]_vars

\* a write has just returned 0 on a slot that a consumer still holds
C16_Witness ==
    /\ done # NoDone /\ done.op = "WriteFront" /\ done.ret = 0
    /\ \E s \in stalled : Leaked(s) /\ Masked(writeIndex) = s

\* the ids are written in increasing order (currentId++), so the item written
\* last among those in READABLE slots is the one with the greatest id
NewestReadable ==
    CHOOSE v \in {buffer[s] : s \in ReadableSlots} :
        \A s \in ReadableSlots : buffer[s] <= v

\* C17: the compare-exchange that a front-read wins is on the slot of the item
\* written last among those READABLE at that moment; the call returns that
\* item and leaves writeIndex exactly 1 below its value when the call began.
C17_FrontReadNewest ==
    [][ /\ (wpc = "rf_cas" /\ wpc' = "rf_copy")
            => buffer[wloc'.actualIndex] = NewestReadable
        /\ (wpc = "rf_retract" /\ wpc' = "idle")
            => /\ done'.op = "ReadFront" /\ done'.ret = 1
               /\ done'.out = buffer[wloc.actualIndex]
               /\ writeIndex = wloc.writeIndex
               /\ writeIndex' = USub(writeIndex, 1) ]_vars

\* C18: readIndex is at most readCount and never decreases, and with no
\* call in progress every READABLE slot is the slot of a logical index from
\* readIndex up to writeIndex - 1: a scan that restarts at readIndex and goes
\* up to writeIndex visits every READABLE slot.
C18_ReadIndexLowerBound ==
    /\ [](readIndex <= readCount)
    /\ [][readIndex' >= readIndex]_vars
    /\ [](Quiescent => ReadableSlots \subseteq WindowSlots(readIndex, writeIndex))

\* the write that stored the item of slot s has returned
WriteCompleted(s) == ~(wpc = "wf_inc" /\ wloc.actualIndex = s)

\* C19: with no call in progress writeIndex - readCount is the number of
\* READABLE slots, so tsPipeIsEmpty is true exactly when no slot is READABLE;
\* in any state tsPipeIsEmpty is true only when no item whose write has
\* completed is READABLE.
C19_CountEqualsContents ==
    /\ Quiescent => /\ USub(writeIndex, readCount) = Cardinality(ReadableSlots)
                    /\ tsPipeIsEmpty <=> ReadableSlots = {}
    /\ tsPipeIsEmpty => \A s \in ReadableSlots : ~WriteCompleted(s)

\* the pipe but for readIndex
Framed(p) == [buffer |-> p.buffer, flags |-> p.flags,
              writeIndex |-> p.writeIndex, readCount |-> p.readCount]

(***************************************************************************)
(* C20 -- a call that returns 0 has no effect.  For a call that ran alone: *)
(* after a write or a read-back that returned 0 the pipe is as it was when *)
(* the call began; after a front-read that returned 0 it is as it was but  *)
(* for readIndex, which is as it was or is the readCount of then.  For any *)
(* call: the step that returns 0 changes at most readIndex, and only in a  *)
(* front-read, to the readCount it loaded; and no step of a read-back      *)
(* changes writeIndex or readIndex.                                        *)
(***************************************************************************)
C20_FailedCallsFrame ==
    /\ []( (done # NoDone /\ done.ret = 0 /\ done.pre # NoSnap) =>
             IF done.op = "ReadFront"
               THEN /\ Framed(Snapshot) = Framed(done.pre)
                    /\ readIndex \in {done.pre.readIndex, done.pre.readCount}
               ELSE Snapshot = done.pre )
    /\ [][ /\ (done' # NoDone /\ done'.ret = 0) =>
               /\ Framed(Snapshot)' = Framed(Snapshot)
               /\ readIndex' # readIndex =>
                     (done'.op = "ReadFront" /\ readIndex' = wloc.readCount)
           /\ \A c \in Consumers : cpc'[c] # cpc[c] =>
                  (writeIndex' = writeIndex /\ readIndex' = readIndex) ]_vars

\* a front-read that ran alone has returned 0 and has moved readIndex, the
\* rest of the pipe being as it was
C20_Witness ==
    /\ done # NoDone /\ done.op = "ReadFront" /\ done.ret = 0
    /\ done.pre # NoSnap
    /\ readIndex # done.pre.readIndex
    /\ Framed(Snapshot) = Framed(done.pre)
====
